---- MODULE Spec2Model ----
(***************************************************************************)
(* Model of victorbenevides_202100011889_sequenciamento.py: the gene       *)
(* occurrence detector, the probability calculator (with its IEEE-754      *)
(* double arithmetic), the work partitioner, the process-pool run of main  *)
(* and the stable ranking.                                                 *)
(*                                                                         *)
(* Strings are sequences of one-character strings; Python indices are      *)
(* 0-based and are kept 0-based in the variables (inicio, posicao).        *)
(***************************************************************************)
EXTENDS Integers, Sequences, FiniteSets, TLC

VARIABLES
    pc,                        \* position of the orchestrator / of the function under study
    arquivo,                   \* the input file: [limiar, sequencia, quantidade, linhas]
    numero_nucleos,            \* multiprocessing.cpu_count()
    tamanho_minimo_substring,  \* the threshold
    sequencia_dna,             \* the DNA sequence
    linhas_doencas,            \* the disease lines returned by ler_arquivo
    grupos_doencas,            \* the chunks built by dividir_lista
    estado,                    \* per task: "pendente" | "executando" | "concluido" | "falhou"
    parciais,                  \* per task: the worker's local list `resultados`
    resultados,                \* what pool.map returned to main
    doencas,                   \* the concatenated list
    doencas_ordenadas,         \* the ranked list
    saida,                     \* the lines written by escrever_arquivo
    lista, n, partes,          \* dividir_lista: arguments and result
    gene, contagem, inicio, posicao, iteracoes, retorno,   \* encontrar_ocorrencias_gene
    genes, probabilidade       \* calcular_probabilidade_doenca: argument and result

vars == << pc, arquivo, numero_nucleos, tamanho_minimo_substring, sequencia_dna,
           linhas_doencas, grupos_doencas, estado, parciais, resultados,
           doencas, doencas_ordenadas, saida, lista, n, partes,
           gene, contagem, inicio, posicao, iteracoes, retorno,
           genes, probabilidade >>

(***************************************************************************)
(* Bounds of the model.                                                    *)
(***************************************************************************)
MaxLinhas == 3

MaxNucleos == 3

MaxLista == 5

MaxPartes == 7

MaxSeq == 4

MaxGene == 3

MaxLimiar == 7

MaxGenes == 40

Min(a, b) == IF a <= b THEN a ELSE b

Max(a, b) == IF a >= b THEN a ELSE b

Last(s) == s[Len(s)]

Front(s) == SubSeq(s, 1, Len(s) - 1)

\* All sequences over S of length 0..k.
SeqsUpTo(S, k) == UNION { [1..m -> S] : m \in 0..k }

\* k copies of x.
Rep(x, k) == [i \in 1..k |-> x]

(***************************************************************************)
(* Python string and list primitives.                                      *)
(***************************************************************************)
\* s[a:b] for 0 <= a, 0 <= b (indices beyond the end are clamped).
Slice(s, a, b) ==
    LET a2 == Min(a, Len(s))
        b2 == Min(b, Len(s))
    IN  IF a2 >= b2 THEN << >> ELSE SubSeq(s, a2 + 1, b2)

\* s.find(sub, start): lowest 0-based index >= start where sub occurs, or -1.
Find(s, sub, start) ==
    LET ps == { p \in start..(Len(s) - Len(sub)) : SubSeq(s, p + 1, p + Len(sub)) = sub }
    IN  IF ps = {} THEN -1 ELSE CHOOSE p \in ps : \A q \in ps : p <= q

RECURSIVE LStrip(_)
LStrip(s) == IF s # << >> /\ s[1] = " " THEN LStrip(Tail(s)) ELSE s

RECURSIVE RStrip(_)
RStrip(s) == IF s # << >> /\ Last(s) = " " THEN RStrip(Front(s)) ELSE s

\* s.strip()
Strip(s) == RStrip(LStrip(s))

\* s.split(): the maximal runs of non-blank characters, in order.
RECURSIVE SplitAcc(_, _, _)
SplitAcc(s, cur, acc) ==
    IF s = << >>
    THEN IF cur = << >> THEN acc ELSE Append(acc, cur)
    ELSE IF s[1] = " "
         THEN SplitAcc(Tail(s), << >>, IF cur = << >> THEN acc ELSE Append(acc, cur))
         ELSE SplitAcc(Tail(s), Append(cur, s[1]), acc)

Split(s) == SplitAcc(s, << >>, << >>)

\* str(k) for k >= 0, as a sequence of characters.
DigitChar(d) == << "0", "1", "2", "3", "4", "5", "6", "7", "8", "9" >>[d + 1]

RECURSIVE IntToStr(_)
IntToStr(k) == IF k < 10 THEN << DigitChar(k) >> ELSE Append(IntToStr(k \div 10), DigitChar(k % 10))

(***************************************************************************)
(* IEEE-754 binary64 arithmetic on non-negative values.  A value is a      *)
(* record [b, f]: b is a sequence of bits, most significant first, and the *)
(* value is int(b) / 2^f.  Every operation computes the exact result and   *)
(* rounds it to 53 significant bits, ties to even.  Long bit strings are   *)
(* handled in limbs of LimbBits bits.                                      *)
(***************************************************************************)
Mantissa == 53

LimbBits == 12

Limb == 2 ^ LimbBits

\* Number of limbs of fraction digits a division produces.
FracLimbs == 6

\* The w-bit representation of v.
IntToBits(v, w) == [ i \in 1..w |-> (v \div (2 ^ (w - i))) % 2 ]

RECURSIVE BitsToInt(_)
BitsToInt(b) == IF b = << >> THEN 0 ELSE 2 * BitsToInt(Front(b)) + Last(b)

\* b + 1
Inc(b) ==
    LET zs == { i \in 1..Len(b) : b[i] = 0 }
    IN  IF zs = {} THEN << 1 >> \o Rep(0, Len(b))
        ELSE LET z == CHOOSE i \in zs : \A j \in zs : j <= i
             IN  [ i \in 1..Len(b) |-> IF i < z THEN b[i] ELSE IF i = z THEN 1 ELSE 0 ]

\* The limbs of a bit string, most significant first.
BitsToLimbs(b) ==
    LET k == (Len(b) + LimbBits - 1) \div LimbBits
        p == Rep(0, k * LimbBits - Len(b)) \o b
    IN  [ j \in 1..k |-> BitsToInt(SubSeq(p, (j - 1) * LimbBits + 1, j * LimbBits)) ]

LimbsToBits(ls) ==
    [ i \in 1..(Len(ls) * LimbBits) |->
        IntToBits(ls[((i - 1) \div LimbBits) + 1], LimbBits)[((i - 1) % LimbBits) + 1] ]

\* ls * c + carry, for a small factor c.
RECURSIVE MulLimbs(_, _, _)
MulLimbs(ls, c, carry) ==
    IF ls = << >>
    THEN IF carry = 0 THEN << >> ELSE << carry >>
    ELSE LET v == Last(ls) * c + carry
         IN  Append(MulLimbs(Front(ls), c, v \div Limb), v % Limb)

\* b without its leading zeros.
LStripZeros(b) ==
    LET ones == { i \in 1..Len(b) : b[i] = 1 }
    IN  IF ones = {} THEN << >>
        ELSE SubSeq(b, CHOOSE i \in ones : \A j \in ones : i <= j, Len(b))

\* Round to nearest, ties to even, at 53 significant bits.
Round53(x) ==
    LET b    == x.b
        ones == { i \in 1..Len(b) : b[i] = 1 }
    IN  IF ones = {} THEN x
        ELSE LET p == CHOOSE i \in ones : \A j \in ones : i <= j
                 k == p + Mantissa - 1
             IN  IF Len(b) <= k THEN x
                 ELSE LET keep   == SubSeq(b, 1, k)
                          guard  == b[k + 1]
                          sticky == \E i \in (k + 2)..Len(b) : b[i] = 1
                          up     == guard = 1 /\ (sticky \/ b[k] = 1)
                      IN  [ b |-> (IF up THEN Inc(keep) ELSE keep) \o Rep(0, Len(b) - k),
                            f |-> x.f ]

\* The first k limbs of the binary expansion of r/d (0 <= r < d).
RECURSIVE FracLimbsOf(_, _, _)
FracLimbsOf(r, d, k) ==
    IF k = 0 THEN << >>
    ELSE LET v == r * Limb
         IN  << v \div d >> \o FracLimbsOf(v % d, d, k - 1)

\* What is left of r/d after k limbs: (r * Limb^k) mod d.
RECURSIVE FracRest(_, _, _)
FracRest(r, d, k) == IF k = 0 THEN r ELSE FracRest((r * Limb) % d, d, k - 1)

\* a / b (true division of two ints, 0 <= a <= b, b > 0): the exact
\* quotient cut after FracLimbs limbs, with a sticky bit for the rest.
FloatDiv(a, b) ==
    LET q  == a \div b
        fr == LimbsToBits(FracLimbsOf(a % b, b, FracLimbs))
        st == IF FracRest(a % b, b, FracLimbs) = 0 THEN 0 ELSE 1
    IN  Round53([ b |-> << q >> \o fr \o << st >>, f |-> Len(fr) + 1 ])

\* x * 100
FloatMul100(x) ==
    Round53([ b |-> LimbsToBits(MulLimbs(BitsToLimbs(x.b), 100, 0)), f |-> x.f ])

\* x + 0.5: the bits above the 1/2 position, plus one.
FloatAddHalf(x) ==
    LET b == IF x.f = 0 THEN Append(x.b, 0) ELSE x.b
        f == IF x.f = 0 THEN 1 ELSE x.f
        k == Len(b) - f + 1
    IN  Round53([ b |-> Inc(SubSeq(b, 1, k)) \o SubSeq(b, k + 1, Len(b)), f |-> f ])

\* math.floor(x)
FloatFloor(x) == BitsToInt(LStripZeros(SubSeq(x.b, 1, Len(x.b) - x.f)))

(***************************************************************************)
(* encontrar_ocorrencias_gene, as a function: the loop of lines 34-43      *)
(* started with the running total c and the search start i.                *)
(***************************************************************************)
RECURSIVE BuscarDesde(_, _, _, _, _)
BuscarDesde(seq, g, limiar, c, i) ==
    IF i <= Len(seq) - Len(g)
    THEN LET p == Find(seq, g, i)
         IN  IF p = -1 THEN FALSE
             ELSE IF c + Len(g) >= limiar THEN TRUE
             ELSE BuscarDesde(seq, g, limiar, c + Len(g), p + 1)
    ELSE FALSE

encontrar_ocorrencias_gene(seq, g, limiar) ==
    IF g = << >> \/ seq = << >> THEN FALSE ELSE BuscarDesde(seq, g, limiar, 0, 0)

\* genes_correspondentes after the loop of lines 56-58.
genes_correspondentes(seq, gs, limiar) ==
    Cardinality({ i \in 1..Len(gs) : encontrar_ocorrencias_gene(seq, gs[i], limiar) })

\* A variant that answers -1 for a disease without genes.
calcular_probabilidade_sem_genes_negativa(seq, gs, limiar) ==
    IF gs = << >> THEN -1
    ELSE Min(FloatFloor(FloatAddHalf(FloatMul100(
                 FloatDiv(genes_correspondentes(seq, gs, limiar), Len(gs))))), 100)

calcular_probabilidade_doenca(seq, gs, limiar) ==
    IF gs = << >> THEN 0
    ELSE Min(FloatFloor(FloatAddHalf(FloatMul100(
                 FloatDiv(genes_correspondentes(seq, gs, limiar), Len(gs))))), 100)

(***************************************************************************)
(* processar_grupo_doencas: one iteration of its loop on one line.         *)
(***************************************************************************)
Partes(linha) == Split(Strip(linha))

\* The Doenca built from a line that has at least one token.
DoencaDaLinha(linha, seq, limiar) ==
    LET ps == Partes(linha)
        gs == Slice(ps, 2, Len(ps))
    IN  [ codigo |-> ps[1], genes |-> gs,
          probabilidade_doenca |-> calcular_probabilidade_doenca(seq, gs, limiar) ]

(***************************************************************************)
(* dividir_lista                                                           *)
(***************************************************************************)
\* A variant that cuts chunks of ceil(L/n) elements.
dividir_lista_teto(l, k) ==
    LET c == (Len(l) + k - 1) \div k
    IN  [ j \in 1..k |-> Slice(l, (j - 1) * c, j * c) ]

\* A variant that forgets the remainder of the division.
dividir_lista_sem_resto(l, k) ==
    LET q == Len(l) \div k
    IN  [ j \in 1..k |-> Slice(l, (j - 1) * q, j * q) ]

\* The chunk of Python index i is element i + 1 of the result.
dividir_lista(l, k) ==
    LET q == Len(l) \div k
        m == Len(l) % k
    IN  [ j \in 1..k |-> Slice(l, (j - 1) * q + Min(j - 1, m), j * q + Min(j, m)) ]

(***************************************************************************)
(* Aggregation and ranking.                                                *)
(***************************************************************************)
\* A variant that puts the chunks together last chunk first.
RECURSIVE AchatarInvertido(_)
AchatarInvertido(rs) == IF rs = << >> THEN << >> ELSE AchatarInvertido(Tail(rs)) \o Head(rs)

\* [doenca for grupo in resultados for doenca in grupo]
RECURSIVE Achatar(_)
Achatar(rs) == IF rs = << >> THEN << >> ELSE Head(rs) \o Achatar(Tail(rs))

\* Insertion of d into a list sorted by ascending key, after the equal keys.
RECURSIVE InserirEstavel(_, _)
InserirEstavel(s, d) ==
    IF s = << >> THEN << d >>
    ELSE IF -Last(s).probabilidade_doenca <= -d.probabilidade_doenca
         THEN Append(s, d)
         ELSE Append(InserirEstavel(Front(s), d), Last(s))

\* sorted(doencas, key=lambda doenca: -doenca.probabilidade_doenca): a stable
\* sort by ascending key.
RECURSIVE ordenar_doencas(_)
ordenar_doencas(ds) ==
    IF ds = << >> THEN << >> ELSE InserirEstavel(ordenar_doencas(Front(ds)), Last(ds))

\* f"{doenca.codigo}->{doenca.probabilidade_doenca}%\n"
LinhaSaida(d) == d.codigo \o << "-", ">" >> \o IntToStr(d.probabilidade_doenca) \o << "%", "\n" >>

(***************************************************************************)
(* Inputs.                                                                 *)
(***************************************************************************)
Bases == { "A", "C" }

\* "ACAA"
SequenciaExemplo == << "A", "C", "A", "A" >>

\* Raw disease lines of an input file: "D1 x AA CC", "D2 y A",
\* " D3  z CA A " (blanks around and doubled), "D4 w" (no gene) and "".
LinhasCandidatas ==
    { << "D", "1", " ", "x", " ", "A", "A", " ", "C", "C" >>,
      << "D", "2", " ", "y", " ", "A" >>,
      << " ", "D", "3", " ", " ", "z", " ", "C", "A", " ", "A", " " >>,
      << "D", "4", " ", "w" >>,
      << >> }

LimiaresExecucao == { 2, 3 }

Arquivos ==
    { [ limiar |-> t, sequencia |-> SequenciaExemplo, quantidade |-> q, linhas |-> ls ] :
        t \in LimiaresExecucao,
        <<ls, q>> \in { x \in SeqsUpTo(LinhasCandidatas, MaxLinhas) \X (0..MaxLinhas) :
                          x[2] \in { Len(x[1]), Len(x[1]) + 1 } } }

\* Gene lists for the calculator: m present genes then k - m absent ones,
\* and the short lists over a few genes (the empty gene included).
GenePresente == << "A", "A" >>

GeneAusente == << "C", "C" >>

ListasDeGenes ==
    { Rep(GenePresente, m) \o Rep(GeneAusente, k - m) : <<m, k>> \in { x \in (0..MaxGenes) \X (0..MaxGenes) : x[1] <= x[2] } }
    \cup SeqsUpTo({ << >>, << "A" >>, GenePresente, GeneAusente }, 2)

(***************************************************************************)
(* Values of the variables a specification does not use.                   *)
(***************************************************************************)
ExecucaoParada ==
    /\ arquivo = << >> /\ numero_nucleos = 0 /\ linhas_doencas = << >>
    /\ grupos_doencas = << >> /\ estado = << >> /\ parciais = << >>
    /\ resultados = << >> /\ doencas = << >> /\ doencas_ordenadas = << >>
    /\ saida = << >>

DivisaoParada == lista = << >> /\ n = 0 /\ partes = << >>

BuscaParada ==
    /\ gene = << >> /\ contagem = 0 /\ inicio = 0 /\ posicao = 0
    /\ iteracoes = 0 /\ retorno = FALSE

CalculoParado == genes = << >> /\ probabilidade = 0

execVars == << arquivo, numero_nucleos, linhas_doencas, grupos_doencas, estado,
               parciais, resultados, doencas, doencas_ordenadas, saida >>

divVars == << lista, n, partes >>

buscaVars == << gene, contagem, inicio, posicao, iteracoes, retorno >>

calcVars == << genes, probabilidade >>

(***************************************************************************)
(* main: the run of the program.                                           *)
(***************************************************************************)
Init ==
    /\ pc = "ler"
    /\ arquivo \in Arquivos
    /\ numero_nucleos \in 1..MaxNucleos
    /\ tamanho_minimo_substring = 0
    /\ sequencia_dna = << >>
    /\ linhas_doencas = << >> /\ grupos_doencas = << >>
    /\ estado = << >> /\ parciais = << >>
    /\ resultados = << >> /\ doencas = << >> /\ doencas_ordenadas = << >>
    /\ saida = << >>
    /\ DivisaoParada /\ BuscaParada /\ CalculoParado

\* ler_arquivo: readline() answers "" once the file is exhausted.
LerArquivo ==
    /\ pc = "ler"
    /\ tamanho_minimo_substring' = arquivo.limiar
    /\ sequencia_dna' = Strip(arquivo.sequencia)
    /\ linhas_doencas' = [ j \in 1..arquivo.quantidade |->
                             IF j <= Len(arquivo.linhas) THEN Strip(arquivo.linhas[j]) ELSE << >> ]
    /\ pc' = "dividir"
    /\ UNCHANGED << arquivo, numero_nucleos, grupos_doencas, estado, parciais, resultados,
                    doencas, doencas_ordenadas, saida, divVars, buscaVars, calcVars >>

\* Lines 131-137: the chunks, one task per chunk, none started.
Dividir ==
    /\ pc = "dividir"
    /\ grupos_doencas' = dividir_lista(linhas_doencas, numero_nucleos)
    /\ estado' = [ i \in 1..numero_nucleos |-> "pendente" ]
    /\ parciais' = [ i \in 1..numero_nucleos |-> << >> ]
    /\ pc' = "map"
    /\ UNCHANGED << arquivo, numero_nucleos, tamanho_minimo_substring, sequencia_dna,
                    linhas_doencas, resultados, doencas, doencas_ordenadas, saida,
                    divVars, buscaVars, calcVars >>

\* A pool process takes task i and enters processar_grupo_doencas.
TarefaInicia(i) ==
    /\ pc = "map"
    /\ estado[i] = "pendente"
    /\ estado' = [ estado EXCEPT ![i] = "executando" ]
    /\ parciais' = [ parciais EXCEPT ![i] = << >> ]
    /\ UNCHANGED << pc, arquivo, numero_nucleos, tamanho_minimo_substring, sequencia_dna,
                    linhas_doencas, grupos_doencas, resultados, doencas, doencas_ordenadas,
                    saida, divVars, buscaVars, calcVars >>

\* The line the loop of task i is at.
LinhaAtual(i) == grupos_doencas[i][Len(parciais[i]) + 1]

\* One iteration of the loop of processar_grupo_doencas.
TarefaLinha(i) ==
    /\ pc = "map"
    /\ estado[i] = "executando"
    /\ Len(parciais[i]) < Len(grupos_doencas[i])
    /\ Partes(LinhaAtual(i)) # << >>
    /\ parciais' = [ parciais EXCEPT ![i] =
                       Append(@, DoencaDaLinha(LinhaAtual(i), sequencia_dna, tamanho_minimo_substring)) ]
    /\ UNCHANGED << pc, arquivo, numero_nucleos, tamanho_minimo_substring, sequencia_dna,
                    linhas_doencas, grupos_doencas, estado, resultados, doencas,
                    doencas_ordenadas, saida, divVars, buscaVars, calcVars >>

\* partes[0] of a line without tokens raises IndexError: the task fails.
TarefaErro(i) ==
    /\ pc = "map"
    /\ estado[i] = "executando"
    /\ Len(parciais[i]) < Len(grupos_doencas[i])
    /\ Partes(LinhaAtual(i)) = << >>
    /\ estado' = [ estado EXCEPT ![i] = "falhou" ]
    /\ UNCHANGED << pc, arquivo, numero_nucleos, tamanho_minimo_substring, sequencia_dna,
                    linhas_doencas, grupos_doencas, parciais, resultados, doencas,
                    doencas_ordenadas, saida, divVars, buscaVars, calcVars >>

\* return resultados
TarefaRetorna(i) ==
    /\ pc = "map"
    /\ estado[i] = "executando"
    /\ Len(parciais[i]) = Len(grupos_doencas[i])
    /\ estado' = [ estado EXCEPT ![i] = "concluido" ]
    /\ UNCHANGED << pc, arquivo, numero_nucleos, tamanho_minimo_substring, sequencia_dna,
                    linhas_doencas, grupos_doencas, parciais, resultados, doencas,
                    doencas_ordenadas, saida, divVars, buscaVars, calcVars >>

\* A variant of pool.map that answers as soon as one task has returned.
PoolMapRetornaSemBarreira ==
    /\ pc = "map"
    /\ \E i \in DOMAIN estado : estado[i] = "concluido"
    /\ resultados' = parciais
    /\ pc' = "concatenar"
    /\ UNCHANGED << arquivo, numero_nucleos, tamanho_minimo_substring, sequencia_dna,
                    linhas_doencas, grupos_doencas, estado, parciais, doencas,
                    doencas_ordenadas, saida, divVars, buscaVars, calcVars >>

\* A variant of pool.map that answers the lists of the tasks that returned
\* and an empty list for a task that failed.
PoolMapRetornaIgnorandoFalha ==
    /\ pc = "map"
    /\ \A i \in DOMAIN estado : estado[i] \in { "concluido", "falhou" }
    /\ resultados' = [ i \in DOMAIN estado |-> IF estado[i] = "concluido" THEN parciais[i] ELSE << >> ]
    /\ pc' = "concatenar"
    /\ UNCHANGED << arquivo, numero_nucleos, tamanho_minimo_substring, sequencia_dna,
                    linhas_doencas, grupos_doencas, estado, parciais, doencas,
                    doencas_ordenadas, saida, divVars, buscaVars, calcVars >>

\* pool.map returns the result lists in task order once every task returned.
PoolMapRetorna ==
    /\ pc = "map"
    /\ \A i \in DOMAIN estado : estado[i] = "concluido"
    /\ resultados' = parciais
    /\ pc' = "concatenar"
    /\ UNCHANGED << arquivo, numero_nucleos, tamanho_minimo_substring, sequencia_dna,
                    linhas_doencas, grupos_doencas, estado, parciais, doencas,
                    doencas_ordenadas, saida, divVars, buscaVars, calcVars >>

\* pool.map re-raises the exception of a failed task; the with block
\* terminates the pool and main ends with the exception.
PoolMapFalha ==
    /\ pc = "map"
    /\ \E i \in DOMAIN estado : estado[i] = "falhou"
    /\ pc' = "erro"
    /\ UNCHANGED << arquivo, numero_nucleos, tamanho_minimo_substring, sequencia_dna,
                    linhas_doencas, grupos_doencas, estado, parciais, resultados, doencas,
                    doencas_ordenadas, saida, divVars, buscaVars, calcVars >>

\* Line 142.
Concatenar ==
    /\ pc = "concatenar"
    /\ doencas' = Achatar(resultados)
    /\ pc' = "ordenar"
    /\ UNCHANGED << arquivo, numero_nucleos, tamanho_minimo_substring, sequencia_dna,
                    linhas_doencas, grupos_doencas, estado, parciais, resultados,
                    doencas_ordenadas, saida, divVars, buscaVars, calcVars >>

\* Line 145.
Ordenar ==
    /\ pc = "ordenar"
    /\ doencas_ordenadas' = ordenar_doencas(doencas)
    /\ pc' = "escrever"
    /\ UNCHANGED << arquivo, numero_nucleos, tamanho_minimo_substring, sequencia_dna,
                    linhas_doencas, grupos_doencas, estado, parciais, resultados,
                    doencas, saida, divVars, buscaVars, calcVars >>

\* escrever_arquivo
Escrever ==
    /\ pc = "escrever"
    /\ saida' = [ j \in 1..Len(doencas_ordenadas) |-> LinhaSaida(doencas_ordenadas[j]) ]
    /\ pc' = "fim"
    /\ UNCHANGED << arquivo, numero_nucleos, tamanho_minimo_substring, sequencia_dna,
                    linhas_doencas, grupos_doencas, estado, parciais, resultados,
                    doencas, doencas_ordenadas, divVars, buscaVars, calcVars >>

Next ==
    \/ LerArquivo
    \/ Dividir
    \/ \E i \in DOMAIN estado : TarefaInicia(i)
    \/ \E i \in DOMAIN estado : TarefaLinha(i)
    \/ \E i \in DOMAIN estado : TarefaErro(i)
    \/ \E i \in DOMAIN estado : TarefaRetorna(i)
    \/ PoolMapRetorna
    \/ PoolMapFalha
    \/ Concatenar
    \/ Ordenar
    \/ Escrever

Spec == Init /\ [][Next]_vars

(***************************************************************************)
(* dividir_lista on its own.                                               *)
(***************************************************************************)
InitDiv ==
    /\ pc = "div_ini"
    /\ lista \in SeqsUpTo({ "a", "b" }, MaxLista)
    /\ n \in 1..MaxPartes
    /\ partes = << >>
    /\ tamanho_minimo_substring = 0 /\ sequencia_dna = << >>
    /\ ExecucaoParada /\ BuscaParada /\ CalculoParado

DividirLista ==
    /\ pc = "div_ini"
    /\ partes' = dividir_lista(lista, n)
    /\ pc' = "div_fim"
    /\ UNCHANGED << lista, n, tamanho_minimo_substring, sequencia_dna,
                    execVars, buscaVars, calcVars >>

NextDiv == DividirLista

SpecDiv == InitDiv /\ [][NextDiv]_vars

(***************************************************************************)
(* encontrar_ocorrencias_gene, statement by statement.  iteracoes counts   *)
(* the executions of the loop body (lines 35-43).                          *)
(***************************************************************************)
InitBusca ==
    /\ pc = "busca_ini"
    /\ sequencia_dna \in SeqsUpTo(Bases, MaxSeq)
    /\ gene \in SeqsUpTo(Bases, MaxGene)
    /\ tamanho_minimo_substring \in 0..MaxLimiar
    /\ contagem = 0 /\ inicio = 0 /\ posicao = 0 /\ iteracoes = 0 /\ retorno = FALSE
    /\ ExecucaoParada /\ DivisaoParada /\ CalculoParado

\* Lines 26-27.
BuscaVazia ==
    /\ pc = "busca_ini"
    /\ gene = << >> \/ sequencia_dna = << >>
    /\ retorno' = FALSE
    /\ pc' = "busca_fim"
    /\ UNCHANGED << gene, contagem, inicio, posicao, iteracoes, tamanho_minimo_substring,
                    sequencia_dna, execVars, divVars, calcVars >>

\* Lines 30-31.
BuscaEntra ==
    /\ pc = "busca_ini"
    /\ gene # << >> /\ sequencia_dna # << >>
    /\ contagem' = 0
    /\ inicio' = 0
    /\ pc' = "busca_laco"
    /\ UNCHANGED << gene, posicao, iteracoes, retorno, tamanho_minimo_substring,
                    sequencia_dna, execVars, divVars, calcVars >>

\* Lines 34-37: the search finds nothing, break, return False.
BuscaNaoAcha ==
    /\ pc = "busca_laco"
    /\ inicio <= Len(sequencia_dna) - Len(gene)
    /\ Find(sequencia_dna, gene, inicio) = -1
    /\ posicao' = -1
    /\ iteracoes' = iteracoes + 1
    /\ retorno' = FALSE
    /\ pc' = "busca_fim"
    /\ UNCHANGED << gene, contagem, inicio, tamanho_minimo_substring,
                    sequencia_dna, execVars, divVars, calcVars >>

\* Lines 34-41: an occurrence brings the total to the threshold, return True.
BuscaAtinge ==
    /\ pc = "busca_laco"
    /\ inicio <= Len(sequencia_dna) - Len(gene)
    /\ Find(sequencia_dna, gene, inicio) # -1
    /\ contagem + Len(gene) >= tamanho_minimo_substring
    /\ posicao' = Find(sequencia_dna, gene, inicio)
    /\ contagem' = contagem + Len(gene)
    /\ iteracoes' = iteracoes + 1
    /\ retorno' = TRUE
    /\ pc' = "busca_fim"
    /\ UNCHANGED << gene, inicio, tamanho_minimo_substring,
                    sequencia_dna, execVars, divVars, calcVars >>

\* A variant that resumes the search after the whole occurrence.
BuscaAvancaSemSobreposicao ==
    /\ pc = "busca_laco"
    /\ inicio <= Len(sequencia_dna) - Len(gene)
    /\ Find(sequencia_dna, gene, inicio) # -1
    /\ contagem + Len(gene) < tamanho_minimo_substring
    /\ posicao' = Find(sequencia_dna, gene, inicio)
    /\ contagem' = contagem + Len(gene)
    /\ iteracoes' = iteracoes + 1
    /\ inicio' = posicao' + Len(gene)
    /\ UNCHANGED << pc, gene, retorno, tamanho_minimo_substring,
                    sequencia_dna, execVars, divVars, calcVars >>

\* A variant that resumes the search at the occurrence just found.
BuscaAvancaSemIncremento ==
    /\ pc = "busca_laco"
    /\ inicio <= Len(sequencia_dna) - Len(gene)
    /\ Find(sequencia_dna, gene, inicio) # -1
    /\ contagem + Len(gene) < tamanho_minimo_substring
    /\ posicao' = Find(sequencia_dna, gene, inicio)
    /\ contagem' = contagem + Len(gene)
    /\ iteracoes' = iteracoes + 1
    /\ inicio' = posicao'
    /\ UNCHANGED << pc, gene, retorno, tamanho_minimo_substring,
                    sequencia_dna, execVars, divVars, calcVars >>

\* Lines 34-43: an occurrence below the threshold, search again from posicao + 1.
BuscaAvanca ==
    /\ pc = "busca_laco"
    /\ inicio <= Len(sequencia_dna) - Len(gene)
    /\ Find(sequencia_dna, gene, inicio) # -1
    /\ contagem + Len(gene) < tamanho_minimo_substring
    /\ posicao' = Find(sequencia_dna, gene, inicio)
    /\ contagem' = contagem + Len(gene)
    /\ iteracoes' = iteracoes + 1
    /\ inicio' = posicao' + 1
    /\ UNCHANGED << pc, gene, retorno, tamanho_minimo_substring,
                    sequencia_dna, execVars, divVars, calcVars >>

\* Lines 34 and 45: the loop condition is false, return False.
BuscaEsgota ==
    /\ pc = "busca_laco"
    /\ inicio > Len(sequencia_dna) - Len(gene)
    /\ retorno' = FALSE
    /\ pc' = "busca_fim"
    /\ UNCHANGED << gene, contagem, inicio, posicao, iteracoes, tamanho_minimo_substring,
                    sequencia_dna, execVars, divVars, calcVars >>

NextBusca ==
    \/ BuscaVazia
    \/ BuscaEntra
    \/ BuscaNaoAcha
    \/ BuscaAtinge
    \/ BuscaAvanca
    \/ BuscaEsgota

SpecBusca == InitBusca /\ [][NextBusca]_vars

\* The interpreter keeps executing the function until it returns.
SpecBuscaJusta == InitBusca /\ [][NextBusca]_vars /\ WF_vars(NextBusca)

(***************************************************************************)
(* calcular_probabilidade_doenca on its own.                               *)
(***************************************************************************)
InitCalc ==
    /\ pc = "calc_ini"
    /\ sequencia_dna = SequenciaExemplo
    /\ tamanho_minimo_substring \in LimiaresExecucao
    /\ genes \in ListasDeGenes
    /\ probabilidade = 0
    /\ ExecucaoParada /\ DivisaoParada /\ BuscaParada

Calcular ==
    /\ pc = "calc_ini"
    /\ probabilidade' = calcular_probabilidade_doenca(sequencia_dna, genes, tamanho_minimo_substring)
    /\ pc' = "calc_fim"
    /\ UNCHANGED << genes, tamanho_minimo_substring, sequencia_dna,
                    execVars, divVars, buscaVars >>

NextCalc == Calcular

SpecCalc == InitCalc /\ [][NextCalc]_vars

(***************************************************************************)
(* Properties.                                                             *)
(***************************************************************************)
\* The diseases of the input lines, in input order, as one worker alone
\* would compute them.
Esperadas ==
    [ j \in 1..Len(linhas_doencas) |->
        DoencaDaLinha(linhas_doencas[j], sequencia_dna, tamanho_minimo_substring) ]

\* The elements of ds whose probability is v, in the order of ds.
ComProbabilidade(ds, v) == SelectSeq(ds, LAMBDA d : d.probabilidade_doenca = v)

NaoCrescente(ds) ==
    \A i \in 1..Len(ds) : \A j \in i..Len(ds) :
        ds[i].probabilidade_doenca >= ds[j].probabilidade_doenca

Terminadas == { "concatenar", "ordenar", "escrever", "fim" }

AlgumaFalhou == \E i \in DOMAIN estado : estado[i] = "falhou"

\* C1: whatever the number of workers and the order in which the tasks run
\* and finish, the ranked list holds each input disease exactly once, in
\* non-increasing probability, equal probabilities in input order.
C1_RankingIndependenteDaDivisao ==
    pc \in { "escrever", "fim" } =>
        /\ Len(doencas_ordenadas) = Len(linhas_doencas)
        /\ NaoCrescente(doencas_ordenadas)
        /\ LET esperadas == Esperadas
           IN  \A v \in { esperadas[j].probabilidade_doenca : j \in 1..Len(esperadas) }
                      \cup { doencas_ordenadas[j].probabilidade_doenca : j \in 1..Len(doencas_ordenadas) } :
                   ComProbabilidade(doencas_ordenadas, v) = ComProbabilidade(esperadas, v)

\* A finished run on several workers where ranking moved a disease and two
\* different diseases tie.
C1_Witness ==
    /\ pc = "fim"
    /\ numero_nucleos >= 2
    /\ doencas_ordenadas # doencas
    /\ \E i \in 1..Len(doencas_ordenadas) : \E j \in (i + 1)..Len(doencas_ordenadas) :
          /\ doencas_ordenadas[i].probabilidade_doenca = doencas_ordenadas[j].probabilidade_doenca
          /\ doencas_ordenadas[i].codigo # doencas_ordenadas[j].codigo

\* Number of elements before chunk i.
RECURSIVE Deslocamento(_, _)
Deslocamento(ps, i) == IF i <= 1 THEN 0 ELSE Deslocamento(ps, i - 1) + Len(ps[i - 1])

\* C2: the chunks are contiguous slices, their concatenation in index order
\* is the list, element for element, and their lengths sum to its length.
C2_DivisaoReconstroiLista ==
    pc = "div_fim" =>
        /\ Achatar(partes) = lista
        /\ Deslocamento(partes, Len(partes) + 1) = Len(lista)
        /\ \A i \in 1..Len(partes) :
              partes[i] = SubSeq(lista, Deslocamento(partes, i) + 1,
                                 Deslocamento(partes, i) + Len(partes[i]))

\* A list cut in several chunks of unequal length.
C2_Witness ==
    /\ pc = "div_fim"
    /\ n >= 2
    /\ Len(lista) > n
    /\ Len(lista) % n # 0
    /\ \E i \in 1..Len(lista) : lista[i] # lista[1]

\* C3: exactly n chunks; with k, m = divmod(L, n) the first m chunks have
\* k + 1 elements and the others k; lengths differ by at most 1; when n > L
\* exactly n - L chunks are empty and they are the last ones.
C3_PartesQuaseIguais ==
    pc = "div_fim" =>
        LET L == Len(lista)
            k == L \div n
            m == L % n
        IN  /\ Len(partes) = n
            /\ \A i \in 1..n : Len(partes[i]) = IF i <= m THEN k + 1 ELSE k
            /\ \A i \in 1..n : \A j \in 1..n : Len(partes[i]) - Len(partes[j]) <= 1
            /\ n > L => /\ Cardinality({ i \in 1..n : partes[i] = << >> }) = n - L
                        /\ \A i \in 1..n : (partes[i] = << >>) <=> (i > L)

\* More chunks than elements.
C3_Witness ==
    /\ pc = "div_fim"
    /\ Len(lista) >= 2
    /\ n > Len(lista) + 1
    /\ partes[n] = << >>
    /\ partes[1] # << >>

\* Number of start offsets at which g occurs in seq.
Ocorrencias(seq, g) ==
    Cardinality({ p \in 0..(Len(seq) - Len(g)) : SubSeq(seq, p + 1, p + Len(g)) = g })

\* C4 as stated: for a non-empty sequence, a non-empty gene and a threshold
\* >= 0, the detector answers true exactly when len(gene) times the number
\* of (overlapping) occurrences is at least the threshold.
C4_RegraComprimentoAcumulado ==
    (pc = "busca_fim" /\ sequencia_dna # << >> /\ gene # << >>) =>
        (retorno <=> Len(gene) * Ocorrencias(sequencia_dna, gene) >= tamanho_minimo_substring)

\* C4 amended: the detector answers true exactly when the gene occurs at
\* least once and len(gene) times the number of (overlapping) occurrences
\* is at least the threshold.
C4_RegraComOcorrencia ==
    (pc = "busca_fim" /\ sequencia_dna # << >> /\ gene # << >>) =>
        (retorno <=> /\ Ocorrencias(sequencia_dna, gene) >= 1
                     /\ Len(gene) * Ocorrencias(sequencia_dna, gene) >= tamanho_minimo_substring)

\* The threshold is reached only by an occurrence that overlaps the one before.
C4_Witness ==
    /\ pc = "busca_fim"
    /\ retorno = TRUE
    /\ Len(gene) = 2
    /\ Len(sequencia_dna) = 4
    /\ iteracoes = 3
    /\ contagem = tamanho_minimo_substring

\* C5: the score is round-half-up of matched / len(genes) * 100, that is
\* (200 * matched + len(genes)) div (2 * len(genes)), and 0 for no genes.
C5_ArredondamentoMeioParaCima ==
    pc = "calc_fim" =>
        probabilidade =
            IF genes = << >> THEN 0
            ELSE (200 * genes_correspondentes(sequencia_dna, genes, tamanho_minimo_substring)
                      + Len(genes)) \div (2 * Len(genes))

ProbabilidadesValidas(ds) ==
    \A j \in 1..Len(ds) : ds[j].probabilidade_doenca \in 0..100

\* C6: every Doenca that exists in a run, in a worker's partial list, in the
\* lists pool.map returned, in the concatenated list and in the ranked
\* list, has a probability between 0 and 100.
C6_ProbabilidadeEntre0e100 ==
    /\ \A i \in DOMAIN parciais : ProbabilidadesValidas(parciais[i])
    /\ \A i \in DOMAIN resultados : ProbabilidadesValidas(resultados[i])
    /\ ProbabilidadesValidas(doencas)
    /\ ProbabilidadesValidas(doencas_ordenadas)

\* A ranked list with a disease without genes, a disease at 100 and one at 0.
C6_Witness ==
    /\ pc = "fim"
    /\ \E j \in 1..Len(doencas_ordenadas) : doencas_ordenadas[j].genes = << >>
    /\ \E j \in 1..Len(doencas_ordenadas) : doencas_ordenadas[j].probabilidade_doenca = 100
    /\ \E j \in 1..Len(doencas_ordenadas) :
          /\ doencas_ordenadas[j].genes # << >>
          /\ doencas_ordenadas[j].probabilidade_doenca = 0

\* C7: a line with fewer than 3 tokens makes the run fail in the loader, so
\* no task ever starts on a chunk that holds such a line.
C7_LinhaMalformadaNaoChegaATarefa ==
    \A i \in DOMAIN estado :
        estado[i] # "pendente" =>
            \A j \in 1..Len(grupos_doencas[i]) : Len(Partes(grupos_doencas[i][j])) >= 3

\* C8: once a task has failed, whatever the other tasks did, main never
\* reaches concatenation, ranking or writing: nothing is aggregated, ranked
\* or written, and main leaves pool.map only with the exception.
C8_FalhaAbortaExecucao ==
    /\ [](AlgumaFalhou =>
            /\ pc \in { "map", "erro" }
            /\ resultados = << >> /\ doencas = << >>
            /\ doencas_ordenadas = << >> /\ saida = << >>)
    /\ [][AlgumaFalhou => (AlgumaFalhou' /\ pc' \in { "map", "erro" })]_vars

\* The run has failed although another task returned a non-empty list.
C8_Witness ==
    /\ pc = "erro"
    /\ \E i \in DOMAIN estado : estado[i] = "concluido" /\ parciais[i] # << >>
    /\ AlgumaFalhou

\* C9: aggregation, ranking and writing start only after every task has
\* returned, and a step of the parallel phase changes neither the sequence,
\* nor the threshold, nor the chunks, and touches the state or the list of
\* at most one task.
C9_BarreiraAntesDaAgregacao ==
    /\ [](pc \in Terminadas => \A i \in DOMAIN estado : estado[i] = "concluido")
    /\ [][pc = "map" =>
            /\ sequencia_dna' = sequencia_dna
            /\ tamanho_minimo_substring' = tamanho_minimo_substring
            /\ grupos_doencas' = grupos_doencas
            /\ Cardinality({ i \in DOMAIN estado :
                               estado'[i] # estado[i] \/ parciais'[i] # parciais[i] }) <= 1]_vars

\* Aggregation begins after two tasks returned non-empty lists.
C9_Witness ==
    /\ pc = "concatenar"
    /\ Cardinality({ i \in DOMAIN estado : estado[i] = "concluido" /\ parciais[i] # << >> }) >= 2

\* C10 as stated, where the loop runs: it ends after at most
\* len(sequence) - len(gene) + 1 iterations.
C10_LimiteIteracoes ==
    (pc \in { "busca_laco", "busca_fim" } /\ sequencia_dna # << >> /\ gene # << >>) =>
        iteracoes <= Len(sequencia_dna) - Len(gene) + 1

\* C10 amended: inicio strictly increases on every iteration that does not
\* return, a found position is never before inicio, the scan ends with a
\* boolean, after at most max(0, len(sequence) - len(gene) + 1) iterations.
C10_BuscaTermina ==
    /\ [](iteracoes <= Max(0, Len(sequencia_dna) - Len(gene) + 1))
    /\ [][(pc = "busca_laco" /\ pc' = "busca_laco") => inicio' > inicio]_vars
    /\ [][(iteracoes' = iteracoes + 1 /\ posicao' # -1) => posicao' >= inicio]_vars
    /\ [](pc = "busca_fim" => retorno \in BOOLEAN)
    /\ <>(pc = "busca_fim")

\* The threshold is never reached and the bound on the iterations is met.
C10_Witness ==
    /\ pc = "busca_fim"
    /\ retorno = FALSE
    /\ iteracoes >= 3
    /\ iteracoes = Len(sequencia_dna) - Len(gene) + 1
    /\ inicio > Len(sequencia_dna) - Len(gene)

====
